---- MODULE Spec2Model ----
(***************************************************************************)
(* A model of the happy-transformer wrappers:                              *)
(*   - HappyTransformer.train / eval / _preprocess_data and GENTrainer.eval*)
(*     (src/happytransformer/happy_transformer.py, gen/trainer.py),        *)
(*   - the question-answering gate of HappyBERT                            *)
(*     (src/happytransformer/happy_bert.py),                               *)
(*   - predict_mask and its formatting pipeline, finish_sentence and       *)
(*     _get_segment_ids (src/happy_transformer/happy_transformer.py).      *)
(* Every public call is one action; the wrapped libraries (datasets,       *)
(* tokenizer, trainer loop) are modelled by their contracts.               *)
(***************************************************************************)
EXTENDS Integers, Sequences, FiniteSets, TLC

\* ------------------------------------------------------------------ bounds
\* Longest input file, in rows.
MaxRows == 2
\* Number of public calls made on one wrapper instance.
MaxCalls == 2
\* Number of calls made on one HappyBERT instance.
MaxQACalls == 4
\* Longest list of options given to predict_mask.
MaxOptions == 2
\* Largest softmax score, in integer units.
MaxScore == 2
\* Largest maxPredictionLength given to finish_sentence.
MaxPredictions == 3
\* Longest tokenized text given to _get_segment_ids.
MaxTokens == 4

VARIABLES
    disk,      \* the preprocessed-data cache directories, by top-level name
    written,   \* history: the pair _preprocess_data last saved under a name
    evalSaved, \* history: the table handed to _run_eval by the eval call that
               \* last saved under a name
    weights,   \* number of completed _run_train dispatches (model updates)
    calls,     \* number of public calls made so far
    pc,        \* the caller's position: "idle", or "returned" from a call
    before,    \* history: disk, written and weights when the last call was made
    res,       \* what the last call did: inputs, error, event trace, outputs
    \* HappyBERT question answering
    qa_init,     \* self.__qa_init
    qa_runner,   \* self.__qa_runner: 0 is None, else the runner's identity
    qa_trainer,  \* self.__qa_trainer: 0 is None, else the trainer's identity
    qaMade,      \* number of QATrainer objects constructed so far
    qaUses,      \* history: calls that reached the QA runner or QA trainer
    qaCalls,     \* number of HappyBERT calls made so far
    qaRes        \* what the last HappyBERT call did

qaVars == <<qa_init, qa_runner, qa_trainer, qaMade, qaUses, qaCalls, qaRes>>

VARIABLES
    \* predict_mask
    maskIn,    \* the call's inputs: tokenized text, options, softmax rows
    maskPc,    \* "ready" before the call, "done" after it
    maskRes    \* what predict_mask did: error, mode, zipped pairs, result

maskVars == <<maskIn, maskPc, maskRes>>

VARIABLES
    \* finish_sentence
    finIn,     \* the call's inputs: text, maxPredictionLength, the predictions
    finPc,     \* "ready" before the call, "done" after it
    finRes,    \* what finish_sentence did: error, returned text, predictions made
    \* _get_segment_ids
    segIn,     \* the tokenized text
    segPc,     \* "ready" before the call, "done" after it
    segRes     \* what _get_segment_ids did: error, segment ids

textVars == <<finIn, finPc, finRes, segIn, segPc, segRes>>

trainVars == <<disk, written, evalSaved, weights, calls, pc, before, res>>

\* ------------------------------------------------------- files and paths
\* eval_filepath == "" (happy_transformer.py:133)
NoPath == 0

\* An input file is named by its row count; its rows are distinct texts.
InputFiles == 1..MaxRows

\* The separate evaluation file, when one is given, is the longest file.
EvalFiles == {MaxRows}

load_dataset(f) == [i \in 1..f |-> 10 * f + i]

\* User-supplied cache paths: two directories and one legacy single file.
CacheNames == {"cacheA", "cacheB", "cache.json"}

\* str.endswith(".json") on the enumerated paths.
EndsWithJson(p) == p \in {"cache.json"}

\* eval_ratio, in tenths: a half split, which puts ceil(n / 2) rows in eval.
EvalRatios == {5}

\* --------------------------------------------------------- dataset values
NoData == [kind |-> "none"]

Dataset(rows) == [kind |-> "dataset", rows |-> rows]

\* DatasetDict({"train": t, "eval": e}); an absent key is NoData.
DatasetDict(t, e) == [kind |-> "dict", train |-> t, eval |-> e]

\* Mutant: a missing split is not noticed (dict.get instead of d[key]).
HasKey_Lenient(d, key) == d.kind = "dict"

\* d[key]: a split of a DatasetDict; on a Dataset it is a column lookup,
\* and neither "train" nor "eval" is a column.
HasKey(d, key) == d.kind = "dict" /\ d[key].kind # "none"

GetItem(d, key) == IF HasKey(d, key) THEN d[key] ELSE NoData

\* load_from_disk(path): path is <<name>> or <<name, split>> (name + "/" + split).
load_from_disk(dk, path) ==
    IF Len(path) = 1 THEN dk[path[1]]
    ELSE GetItem(dk[path[1]], path[2])

\* Mutant: the two splits are written under each other's name.
save_to_disk_Swapped(dk, name, d) ==
    [dk EXCEPT ![name] = DatasetDict(d.eval, d.train)]

\* save_to_disk(path): the directory now holds d.
save_to_disk(dk, name, d) == [dk EXCEPT ![name] = d]

\* ------------------------------------------------------------ tokenizing
\* The per-row transform a task subclass supplies; row order is preserved.
TokRow(r) == 100 + r

_tok_function(rows) == Dataset([i \in 1..Len(rows) |-> TokRow(rows[i])])

\* --------------------------------------------------------- shuffle, split
Perms(n) == {p \in [1..n -> 1..n] : \A i, j \in 1..n : i # j => p[i] # p[j]}

Identity(n) == [i \in 1..n |-> i]

\* shuffle(seed=42): one fixed permutation per length (here a rotation).
Shuffle42(rows) ==
    [i \in 1..Len(rows) |-> rows[IF i = Len(rows) THEN 1 ELSE i + 1]]

\* n_test = ceil(test_size * n)
NTest(n, ratio) == (ratio * n + 9) \div 10

\* train_test_split raises when the train set would be empty.
SplitOk(n, ratio) == NTest(n, ratio) >= 1 /\ n - NTest(n, ratio) >= 1

\* Mutant: train is cut from the start of the permutation, overlapping test.
train_test_split_Overlap(rows, ratio, perm) ==
    LET n  == Len(rows)
        nt == NTest(n, ratio)
    IN  [test  |-> [i \in 1..nt |-> rows[perm[i]]],
         train |-> [i \in 1..(n - nt) |-> rows[perm[i]]]]

\* train_test_split(test_size=ratio): it shuffles again, with no seed, so
\* the permutation is any; test is its first n_test rows, train the rest.
train_test_split(rows, ratio, perm) ==
    LET n  == Len(rows)
        nt == NTest(n, ratio)
    IN  [test  |-> [i \in 1..nt |-> rows[perm[i]]],
         train |-> [i \in 1..(n - nt) |-> rows[perm[nt + i]]]]

\* ------------------------------------------------------- _preprocess_data
Outcome(err, trace, train, eval, rawTrain, rawEval, dk, wr) ==
    [err |-> err, trace |-> trace, train |-> train, eval |-> eval,
     rawTrain |-> rawTrain, rawEval |-> rawEval, disk |-> dk, written |-> wr]

Failed(err, trace, dk, wr) ==
    Outcome(err, trace, NoData, NoData, <<>>, <<>>, dk, wr)

\* The guard of the load branch (happy_transformer.py:144).
LoadGuardRejects(args) == EndsWithJson(args.save_preprocessed_data_path)

\* Mutant: the save branch has no check of its path.
SaveGuardRejects_Never(args) == FALSE

\* The guard of the save branch (happy_transformer.py:158).
SaveGuardRejects(args) == EndsWithJson(args.save_preprocessed_data_path)

\* not load_preprocessed_data, eval_filepath == "": shuffle and split one file.
PreprocessSplit(input_filepath, args, perm, dk, wr) ==
    LET all_raw_data == Shuffle42(load_dataset(input_filepath))
        split == train_test_split(all_raw_data, args.eval_ratio, perm)
    IN  IF ~SplitOk(Len(all_raw_data), args.eval_ratio)
        THEN Failed("ValueError: empty split",
                    <<"load_dataset", "shuffle", "train_test_split">>, dk, wr)
        ELSE Outcome("", <<"load_dataset", "shuffle", "train_test_split",
                           "tokenize", "tokenize">>,
                     _tok_function(split.train), _tok_function(split.test),
                     split.train, split.test, dk, wr)

\* not load_preprocessed_data, eval_filepath given: two files, as they are.
PreprocessTwoFiles(input_filepath, eval_filepath, dk, wr) ==
    LET raw_train == load_dataset(input_filepath)
        raw_eval  == load_dataset(eval_filepath)
    IN  Outcome("", <<"load_dataset", "tokenize", "tokenize">>,
                _tok_function(raw_train), _tok_function(raw_eval),
                raw_train, raw_eval, dk, wr)

\* load_preprocessed_data: the pair comes from the cache directory.
PreprocessLoad(args, dk, wr) ==
    IF LoadGuardRejects(args)
    THEN Failed("ValueError: json, preprocess again", <<>>, dk, wr)
    ELSE LET tok_data == load_from_disk(dk, <<args.load_preprocessed_data_path>>)
         IN  IF tok_data.kind = "none"
             THEN Failed("FileNotFoundError", <<"load_from_disk">>, dk, wr)
             ELSE IF ~HasKey(tok_data, "train") \/ ~HasKey(tok_data, "eval")
             THEN Failed("KeyError", <<"load_from_disk">>, dk, wr)
             ELSE Outcome("", <<"load_from_disk">>,
                          GetItem(tok_data, "train"), GetItem(tok_data, "eval"),
                          <<>>, <<>>, dk, wr)

\* if save_preprocessed_data: warn when loading too, reject a .json path,
\* write DatasetDict({"train", "eval"}) (happy_transformer.py:153-164).
PreprocessSave(args, o) ==
    IF o.err # "" \/ ~args.save_preprocessed_data THEN o
    ELSE LET warned == IF args.load_preprocessed_data
                       THEN Append(o.trace, "warning") ELSE o.trace
         IN  IF SaveGuardRejects(args)
             THEN [o EXCEPT !.err = "ValueError: json, provide a folder",
                            !.trace = warned,
                            !.train = NoData, !.eval = NoData]
             ELSE [o EXCEPT
                     !.trace = Append(warned, "save_to_disk"),
                     !.disk = save_to_disk(o.disk, args.save_preprocessed_data_path,
                                           DatasetDict(o.train, o.eval)),
                     !.written = [o.written EXCEPT
                                     ![args.save_preprocessed_data_path] =
                                         DatasetDict(o.train, o.eval)]]

\* Mutant: with save and load both requested, save wins (the file is read
\* and tokenized again).
_preprocess_data_SaveWins(input_filepath, eval_filepath, args, perm, dk, wr) ==
    PreprocessSave(args,
        IF ~args.load_preprocessed_data \/ args.save_preprocessed_data
        THEN IF eval_filepath = NoPath
             THEN PreprocessSplit(input_filepath, args, perm, dk, wr)
             ELSE PreprocessTwoFiles(input_filepath, eval_filepath, dk, wr)
        ELSE PreprocessLoad(args, dk, wr))

_preprocess_data(input_filepath, eval_filepath, args, perm, dk, wr) ==
    PreprocessSave(args,
        IF ~args.load_preprocessed_data
        THEN IF eval_filepath = NoPath
             THEN PreprocessSplit(input_filepath, args, perm, dk, wr)
             ELSE PreprocessTwoFiles(input_filepath, eval_filepath, dk, wr)
        ELSE PreprocessLoad(args, dk, wr))

\* ------------------------------------------------------------- arguments
\* A TrainArgs dataclass, or a legacy dictionary with the same keys.
ArgsSet ==
    [isDict : BOOLEAN,
     eval_ratio : EvalRatios,
     save_preprocessed_data : BOOLEAN,
     save_preprocessed_data_path : CacheNames,
     load_preprocessed_data : BOOLEAN,
     load_preprocessed_data_path : CacheNames]

\* The permutations train_test_split can draw in this call.
SplitPerms(input_filepath, eval_filepath, args) ==
    IF ~args.isDict /\ ~args.load_preprocessed_data /\ eval_filepath = NoPath
    THEN Perms(input_filepath)
    ELSE {Identity(input_filepath)}

Result(op, input_filepath, eval_filepath, args, o) ==
    [op |-> op, input |-> input_filepath, evalf |-> eval_filepath, args |-> args,
     err |-> o.err, trace |-> o.trace, train |-> o.train, eval |-> o.eval,
     rawTrain |-> o.rawTrain, rawEval |-> o.rawEval]

\* res before any call, and after the caller has taken a result.
NoCall ==
    Result("none", NoPath, NoPath,
           [isDict |-> FALSE, eval_ratio |-> 5,
            save_preprocessed_data |-> FALSE, save_preprocessed_data_path |-> "cacheA",
            load_preprocessed_data |-> FALSE, load_preprocessed_data_path |-> "cacheA"],
           Failed("", <<>>, <<>>, <<>>))

\* ---------------------------------------------------------------- train
\* type(args) == dict (happy_transformer.py:74)
\* Mutant: the dictionary check is missing.
IsDictArgs_Never(args) == FALSE

IsDictArgs(args) == args.isDict

\* The call wrote a cache directory.
Saved(o) == \E i \in 1..Len(o.trace) : o.trace[i] = "save_to_disk"

\* A public call is made by an idle caller and leaves it holding the result.
Enter ==
    /\ pc = "idle"
    /\ calls < MaxCalls
    /\ calls' = calls + 1
    /\ pc' = "returned"
    /\ before' = [disk |-> disk, written |-> written, weights |-> weights,
                  evalSaved |-> evalSaved]
    /\ UNCHANGED <<qaVars, maskVars, textVars>>

train(input_filepath, args, eval_filepath, perm) ==
    /\ Enter
    /\ IF IsDictArgs(args)
       THEN /\ res' = Result("train", input_filepath, eval_filepath, args,
                             Failed("ValueError: dict", <<>>, disk, written))
            /\ UNCHANGED <<disk, written, evalSaved, weights>>
       ELSE LET o == _preprocess_data(input_filepath, eval_filepath, args, perm,
                                      disk, written)
            IN  /\ disk' = o.disk
                /\ written' = o.written
                /\ evalSaved' = IF Saved(o)
                                THEN [evalSaved EXCEPT
                                        ![args.save_preprocessed_data_path] = NoData]
                                ELSE evalSaved
                /\ IF o.err # ""
                   THEN /\ res' = Result("train", input_filepath, eval_filepath,
                                         args, o)
                        /\ UNCHANGED weights
                   ELSE /\ res' = Result("train", input_filepath, eval_filepath, args,
                                         [o EXCEPT !.trace = Append(o.trace, "_run_train")])
                        /\ weights' = weights + 1

Train ==
    \E input_filepath \in InputFiles, eval_filepath \in {NoPath} \cup EvalFiles,
       args \in ArgsSet :
        \E perm \in SplitPerms(input_filepath, eval_filepath, args) :
            train(input_filepath, args, eval_filepath, perm)

\* ----------------------------------------------------- GENTrainer.eval
\* preprocess_concatenate maps the tokenizer over every split of the
\* DatasetDict it is given and returns a DatasetDict with the same keys.
preprocess_concatenate(datasets) ==
    DatasetDict(NoData, _tok_function(datasets.eval.rows))

\* Mutant: the load branch reads the directory itself, not its "eval" entry.
GenTokenized_NoSubdir(input_filepath, args, dk) ==
    IF ~args.load_preprocessed_data
    THEN preprocess_concatenate(
             DatasetDict(NoData, Dataset(load_dataset(input_filepath))))
    ELSE load_from_disk(dk, <<args.load_preprocessed_data_path>>)

\* tokenized_dataset of gen/trainer.py:49-56.
GenTokenized(input_filepath, args, dk) ==
    IF ~args.load_preprocessed_data
    THEN preprocess_concatenate(
             DatasetDict(NoData, Dataset(load_dataset(input_filepath))))
    ELSE load_from_disk(dk, <<args.load_preprocessed_data_path, "eval">>)

GenFirstTrace(args) ==
    IF ~args.load_preprocessed_data
    THEN <<"load_dataset", "tokenize">>
    ELSE <<"load_from_disk">>

\* The save branch of gen/trainer.py:58-64: DatasetDict({"eval": tokenized}).
GenSave(args, tokenized, o) ==
    IF ~args.save_preprocessed_data THEN o
    ELSE [o EXCEPT
            !.trace = (IF args.load_preprocessed_data
                       THEN Append(o.trace, "warning") ELSE o.trace)
                      \o <<"save_to_disk">>,
            !.disk = save_to_disk(o.disk, args.save_preprocessed_data_path,
                                  DatasetDict(NoData, tokenized)),
            !.written = [o.written EXCEPT
                            ![args.save_preprocessed_data_path] = NoData]]

GENTrainer_eval(input_filepath, args, dk, wr) ==
    LET tokenized == GenTokenized(input_filepath, args, dk)
    IN  IF tokenized.kind = "none"
        THEN Failed("FileNotFoundError", GenFirstTrace(args), dk, wr)
        ELSE LET o == GenSave(args, tokenized,
                              Failed("", GenFirstTrace(args), dk, wr))
             IN  IF ~HasKey(tokenized, "eval")
                 THEN [o EXCEPT !.err = "KeyError"]
                 ELSE [o EXCEPT !.trace = Append(o.trace, "_run_eval"),
                                !.eval = GetItem(tokenized, "eval"),
                                !.rawEval = IF args.load_preprocessed_data
                                            THEN <<>>
                                            ELSE load_dataset(input_filepath)]

\* ----------------------------------------------------------------- eval
eval(input_filepath, args) ==
    /\ Enter
    /\ UNCHANGED weights
    /\ IF IsDictArgs(args)
       THEN /\ res' = Result("eval", input_filepath, NoPath, args,
                             Failed("ValueError: dict", <<>>, disk, written))
            /\ UNCHANGED <<disk, written, evalSaved>>
       ELSE LET o == GENTrainer_eval(input_filepath, args, disk, written)
            IN  /\ res' = Result("eval", input_filepath, NoPath, args, o)
                /\ disk' = o.disk
                /\ written' = o.written
                /\ evalSaved' = IF Saved(o)
                                THEN [evalSaved EXCEPT
                                        ![args.save_preprocessed_data_path] = o.eval]
                                ELSE evalSaved

Eval ==
    \E input_filepath \in InputFiles, args \in ArgsSet :
        eval(input_filepath, args)

\* The caller takes the result (or the exception); the wrapper is idle again.
Return ==
    /\ pc = "returned"
    /\ pc' = "idle"
    /\ res' = NoCall
    /\ before' = [disk |-> disk, written |-> written, weights |-> weights,
                  evalSaved |-> evalSaved]
    /\ UNCHANGED <<qaVars, maskVars, textVars>>
    /\ UNCHANGED <<disk, written, evalSaved, weights, calls>>

\* =================================================== HappyBERT: QA gate
\* The arguments of the QA calls: a question and context, or a file path.
QAArgs == {"a", "b"}

NoError == [type |-> "", names |-> ""]

\* _init_model_first_warning(model_type, init_func): the gate's failure,
\* an error that names the setup call to make first.
_init_model_first_warning(model_type, init_func) ==
    [raised |-> TRUE,
     err |-> [type |-> "NotInitializedError", names |-> init_func]]

QAResult(op, arg, err, ret, touched) ==
    [op |-> op, arg |-> arg, err |-> err, ret |-> ret, touched |-> touched,
     wasInit |-> qa_init]

\* The else branch of every QA method: the warning helper is called; if it
\* comes back, the method returns orElse (None, or -1 in eval_qa).
NotInitialized(op, arg, orElse) ==
    LET w == _init_model_first_warning("question answering", "init_qa(model_name)")
    IN  IF w.raised
        THEN QAResult(op, arg, w.err, "raised", "nothing")
        ELSE QAResult(op, arg, NoError, orElse, "nothing")

\* Mutant: the gate is missing.
QAGate_Always == TRUE

\* if self.__qa_init (happy_bert.py:160, 175, 181, 191, 200)
QAGate == qa_init

QAEnter ==
    /\ qaCalls < MaxQACalls
    /\ qaCalls' = qaCalls + 1
    /\ UNCHANGED <<trainVars, maskVars, textVars>>

init_qa ==
    /\ QAEnter
    /\ qa_runner' = 1
    /\ qa_init' = TRUE
    /\ qaRes' = QAResult("init_qa", "a", NoError, "None", "nothing")
    /\ UNCHANGED <<qa_trainer, qaMade, qaUses>>

\* answers_to_question and answer_question: delegate to the runner.
RunnerCall(op, arg, value) ==
    /\ QAEnter
    /\ IF QAGate
       THEN /\ qaRes' = QAResult(op, arg, NoError, value, "runner")
            /\ qaUses' = qaUses + 1
       ELSE /\ qaRes' = NotInitialized(op, arg, "None")
            /\ UNCHANGED qaUses
    /\ UNCHANGED <<qa_init, qa_runner, qa_trainer, qaMade>>

answers_to_question == \E arg \in QAArgs : RunnerCall("answers_to_question", arg, "answers")

answer_question == \E arg \in QAArgs : RunnerCall("answer_question", arg, "answer")

\* if self.__qa_trainer == None: self.__qa_trainer = QATrainer(...)
EnsureTrainer ==
    IF qa_trainer = 0
    THEN /\ qa_trainer' = qaMade + 1
         /\ qaMade' = qaMade + 1
    ELSE UNCHANGED <<qa_trainer, qaMade>>

train_qa ==
    \E arg \in QAArgs :
        /\ QAEnter
        /\ IF QAGate
           THEN /\ EnsureTrainer
                /\ qaRes' = QAResult("train_qa", arg, NoError, "None", "trainer")
                /\ qaUses' = qaUses + 1
           ELSE /\ qaRes' = NotInitialized("train_qa", arg, "None")
                /\ UNCHANGED <<qa_trainer, qaMade, qaUses>>
        /\ UNCHANGED <<qa_init, qa_runner>>

\* test_qa reads self.qa_trainer, an attribute no method assigns (the other
\* methods use the name-mangled self.__qa_trainer): the read raises.
test_qa ==
    \E arg \in QAArgs :
        /\ QAEnter
        /\ IF QAGate
           THEN qaRes' = QAResult("test_qa", arg,
                                  [type |-> "AttributeError", names |-> "qa_trainer"],
                                  "raised", "nothing")
           ELSE qaRes' = NotInitialized("test_qa", arg, "None")
        /\ UNCHANGED <<qa_init, qa_runner, qa_trainer, qaMade, qaUses>>

eval_qa ==
    \E arg \in QAArgs :
        /\ QAEnter
        /\ IF QAGate
           THEN /\ EnsureTrainer
                /\ qaRes' = QAResult("eval_qa", arg, NoError, "eval result", "trainer")
                /\ qaUses' = qaUses + 1
           ELSE /\ qaRes' = NotInitialized("eval_qa", arg, "-1")
                /\ UNCHANGED <<qa_trainer, qaMade, qaUses>>
        /\ UNCHANGED <<qa_init, qa_runner>>

InitQA ==
    /\ qa_init = FALSE
    /\ qa_runner = 0
    /\ qa_trainer = 0
    /\ qaMade = 0
    /\ qaUses = 0
    /\ qaCalls = 0
    /\ qaRes = [op |-> "none", arg |-> "a", err |-> NoError, ret |-> "None",
                touched |-> "nothing", wasInit |-> FALSE]

NextQA ==
    \/ init_qa
    \/ answers_to_question
    \/ answer_question
    \/ train_qa
    \/ test_qa
    \/ eval_qa

\* ======================================================== predict_mask
\* The tokenizer: a vocabulary of two pieces, and candidate words that
\* encode into one piece or into two.
Vocab == 1..2

Words == {"a", "b", "ab"}

\* tokenizer.encode(option)
encode(option) ==
    IF option = "a" THEN <<1>> ELSE IF option = "b" THEN <<2>> ELSE <<1, 2>>

\* tokenizer.convert_ids_to_tokens
convert_ids_to_tokens(id) == IF id = 1 THEN "a" ELSE "b"

\* Tokenized texts, as __get_tokenized_text builds them: [CLS] ... [SEP].
Texts ==
    {<<"[CLS]", "[MASK]", "[SEP]">>,
     <<"[CLS]", "w", "[MASK]", "[SEP]">>,
     <<"[CLS]", "w", "[SEP]">>}

HasToken(tokenized_text, tok) ==
    \E i \in 1..Len(tokenized_text) : tokenized_text[i] = tok

\* list.index(tok): the first position holding tok.
IndexOf(tokenized_text, tok) ==
    CHOOSE i \in 1..Len(tokenized_text) :
        /\ tokenized_text[i] = tok
        /\ \A j \in 1..(i - 1) : tokenized_text[j] # tok

Rows == [Vocab -> 0..MaxScore]

\* softmax[0]: one row of scores per position of the text.
Softmax(tokenized_text, rowA, rowB) ==
    [pos \in 1..Len(tokenized_text) |-> IF pos = 2 THEN rowA ELSE rowB]

RECURSIVE SumSeq(_)
SumSeq(xs) == IF xs = <<>> THEN 0 ELSE Head(xs) + SumSeq(Tail(xs))

\* Mutant: the scores are read at the first position, not at the mask.
soft_sum_FirstRow(option, softed, mask_id) ==
    SumSeq([k \in 1..Len(option) |-> softed[1][option[k]]])

\* np.sum([softed[mask_id][op] for op in option])
soft_sum(option, softed, mask_id) ==
    SumSeq([k \in 1..Len(option) |-> softed[mask_id][option[k]]])

\* Mutant: truthiness instead of "is not None": an empty list counts as none.
OptionsGiven_Truthy(options) == options.given /\ options.list # <<>>

\* options is not None (happy_transformer.py:63)
OptionsGiven(options) == options.given

\* tuple(zip(options, scores))
Zip(options, scores) ==
    [i \in 1..(IF Len(options) < Len(scores) THEN Len(options) ELSE Len(scores))
        |-> <<options[i], scores[i]>>]

\* Mutant: an equal score is placed in front (the sort is not stable).
InsertByScore_Unstable(ranked, x) ==
    LET k == Cardinality({i \in 1..Len(ranked) : ranked[i][2] > x[2]})
    IN  SubSeq(ranked, 1, k) \o <<x>> \o SubSeq(ranked, k + 1, Len(ranked))

\* One step of sorted(..., key=score, reverse=True): x goes behind every
\* pair whose score is at least its own, so equal scores keep their order.
InsertByScore(ranked, x) ==
    LET k == Cardinality({i \in 1..Len(ranked) : ranked[i][2] >= x[2]})
    IN  SubSeq(ranked, 1, k) \o <<x>> \o SubSeq(ranked, k + 1, Len(ranked))

RECURSIVE sorted(_)
sorted(pairs) ==
    IF pairs = <<>> THEN <<>>
    ELSE InsertByScore(sorted(SubSeq(pairs, 1, Len(pairs) - 1)), pairs[Len(pairs)])

\* __format_option_scores: rank, then one {'word', 'score'} per pair.
format_option_scores(tupled_predictions) ==
    LET ranked_scores == sorted(tupled_predictions)
    IN  [i \in 1..Len(ranked_scores) |->
            [word |-> ranked_scores[i][1], score |-> ranked_scores[i][2]]]

\* Mutant: the smallest score is taken.
TopIds_Smallest(row) == {v \in Vocab : \A u \in Vocab : row[v] <= row[u]}

\* torch.topk(row, 1): the ids holding the largest score (one is returned).
TopIds(row) == {v \in Vocab : \A u \in Vocab : row[u] <= row[v]}

MaskResult(err, mode, tupled, out) ==
    [err |-> err, mode |-> mode, tupled |-> tupled, out |-> out]

predict_mask(tokenized_text, options, softmax, top) ==
    IF ~HasToken(tokenized_text, "[MASK]")
    THEN MaskResult("ValueError: not in list", "none", <<>>, <<>>)
    ELSE LET masked_index == IndexOf(tokenized_text, "[MASK]")
         IN  IF OptionsGiven(options)
             THEN LET option_ids == [i \in 1..Len(options.list) |->
                                        encode(options.list[i])]
                      scores == [i \in 1..Len(option_ids) |->
                                    soft_sum(option_ids[i], softmax, masked_index)]
                      tupled == Zip(options.list, scores)
                  IN  MaskResult("", "restricted", tupled,
                                 format_option_scores(tupled))
             ELSE LET scores == <<softmax[masked_index][top]>>
                      tokens == <<convert_ids_to_tokens(top)>>
                      tupled == Zip(tokens, scores)
                  IN  MaskResult("", "unrestricted", tupled,
                                 format_option_scores(tupled))

\* options: None, or a list of at most MaxOptions candidate words.
OptionLists == UNION {[1..n -> Words] : n \in 0..MaxOptions}

OptionsSet ==
    {[given |-> FALSE, list |-> <<>>]}
        \cup {[given |-> TRUE, list |-> l] : l \in OptionLists}

MaskInputs ==
    [text : Texts, options : OptionsSet, rowA : Rows, rowB : Rows]

MaskSoftmax == Softmax(maskIn.text, maskIn.rowA, maskIn.rowB)

PredictMask ==
    /\ maskPc = "ready"
    /\ maskPc' = "done"
    /\ \E top \in (IF HasToken(maskIn.text, "[MASK]")
                   THEN TopIds(MaskSoftmax[IndexOf(maskIn.text, "[MASK]")])
                   ELSE {1}) :
           maskRes' = predict_mask(maskIn.text, maskIn.options, MaskSoftmax, top)
    /\ UNCHANGED <<maskIn, trainVars, qaVars, textVars>>

InitMask ==
    /\ maskIn \in MaskInputs
    /\ maskPc = "ready"
    /\ maskRes = MaskResult("", "none", <<>>, <<>>)

\* One fixed input, for the specifications of the other wrappers.
InitMaskIdle ==
    /\ maskIn = [text |-> <<"[CLS]", "[MASK]", "[SEP]">>,
                 options |-> [given |-> FALSE, list |-> <<>>],
                 rowA |-> [v \in Vocab |-> 0], rowB |-> [v \in Vocab |-> 0]]
    /\ maskPc = "ready"
    /\ maskRes = MaskResult("", "none", <<>>, <<>>)

\* ====================================================== finish_sentence
\* Python values of two types meet in finish_sentence: str and dict.
PyStr(words) == [type |-> "str", val |-> words]

PyDict(d) == [type |-> "dict", val |-> d]

\* a == b: values of different types are unequal.
PyEq(a, b) == a.type = b.type /\ a.val = b.val

\* text + x for a str text: defined for a str x only.
StrAdd(text, x) ==
    IF x.type = "str" THEN [err |-> "", sum |-> PyStr(text.val \o x.val)]
    ELSE [err |-> "TypeError: can only concatenate str to str", sum |-> text]

\* self.predict_mask(text + "[MASK]"): unrestricted, the top token is `top`.
PredictNext(top) ==
    LET row == [v \in Vocab |-> IF v = top THEN MaxScore ELSE 0]
        tokenized_text == <<"[CLS]", "[MASK]", "[SEP]">>
    IN  predict_mask(tokenized_text, [given |-> FALSE, list |-> <<>>],
                     Softmax(tokenized_text, row, row), top).out

FinResult(err, text, made) == [err |-> err, text |-> text, made |-> made]

\* The loop of finish_sentence from iteration i on (happy_transformer.py:202-215).
RECURSIVE FinishLoop(_, _, _, _, _, _)
FinishLoop(i, text, father_predict, grand_father_predict, maxPredictionLength, tops) ==
    IF i > maxPredictionLength THEN FinResult("", text.val, i - 1)
    ELSE LET predict_word == PyDict(PredictNext(tops[i])[1])
         IN  IF /\ PyEq(predict_word, father_predict)
                /\ PyEq(predict_word, grand_father_predict)
             THEN FinResult("", text.val, i)
             ELSE LET added == StrAdd(text, predict_word)
                  IN  IF added.err # ""
                      THEN FinResult(added.err, <<>>, i)
                      ELSE FinishLoop(i + 1, added.sum, predict_word,
                                      father_predict, maxPredictionLength, tops)

finish_sentence(text, maxPredictionLength, tops) ==
    FinishLoop(1, PyStr(text), PyStr(<<>>), PyStr(<<>>),
               maxPredictionLength, tops)

\* A text is a sequence of words; tops[i] is the i-th prediction's top id.
FinInputs ==
    [text : {<<>>, <<"w">>},
     maxPredictionLength : 0..MaxPredictions,
     tops : [1..MaxPredictions -> Vocab]]

FinishSentence ==
    /\ finPc = "ready"
    /\ finPc' = "done"
    /\ finRes' = finish_sentence(finIn.text, finIn.maxPredictionLength, finIn.tops)
    /\ UNCHANGED <<finIn, segIn, segPc, segRes, trainVars, qaVars, maskVars>>

InitFin ==
    /\ finIn \in FinInputs
    /\ finPc = "ready"
    /\ finRes = FinResult("", <<>>, 0)

InitFinIdle ==
    /\ finIn = [text |-> <<>>, maxPredictionLength |-> 0,
                tops |-> [i \in 1..MaxPredictions |-> 1]]
    /\ finPc = "ready"
    /\ finRes = FinResult("", <<>>, 0)

\* ===================================================== _get_segment_ids
SegTokens == {"w", "[MASK]", "[SEP]"}

SegTexts == UNION {[1..n -> SegTokens] : n \in 0..MaxTokens}

SegResult(err, ids) == [err |-> err, ids |-> ids]

\* Mutant: the separator itself is counted with the second segment.
SegmentOf_SepIsSecond(i, split_location) == IF i < split_location THEN 0 ELSE 1

\* if i <= split_location: 0, else 1 (happy_transformer.py:185-188)
SegmentOf(i, split_location) == IF i <= split_location THEN 0 ELSE 1

_get_segment_ids(tokenized_text) ==
    IF ~HasToken(tokenized_text, "[SEP]")
    THEN SegResult("ValueError: not in list", <<>>)
    ELSE LET split_location == IndexOf(tokenized_text, "[SEP]")
         IN  SegResult("", [i \in 1..Len(tokenized_text) |->
                               SegmentOf(i, split_location)])

GetSegmentIds ==
    /\ segPc = "ready"
    /\ segPc' = "done"
    /\ segRes' = _get_segment_ids(segIn)
    /\ UNCHANGED <<segIn, finIn, finPc, finRes, trainVars, qaVars, maskVars>>

InitSeg ==
    /\ segIn \in SegTexts
    /\ segPc = "ready"
    /\ segRes = SegResult("", <<>>)

InitSegIdle ==
    /\ segIn = <<"[SEP]">>
    /\ segPc = "ready"
    /\ segRes = SegResult("", <<>>)

\* ========================================================= specifications
InitTrain ==
    /\ disk = [p \in CacheNames |-> NoData]
    /\ written = [p \in CacheNames |-> NoData]
    /\ weights = 0
    /\ calls = 0
    /\ pc = "idle"
    /\ evalSaved = [p \in CacheNames |-> NoData]
    /\ before = [disk |-> disk, written |-> written, weights |-> weights,
                 evalSaved |-> evalSaved]
    /\ res = NoCall

vars == <<trainVars, qaVars, maskVars, textVars>>

Init == InitTrain /\ InitQA /\ InitMaskIdle /\ InitFinIdle /\ InitSegIdle

Next == Train \/ Eval \/ Return

\* The training wrapper: train, eval and the caller taking the result.
Spec == Init /\ [][Next]_vars

\* The HappyBERT wrapper.
SpecQA == Init /\ [][NextQA]_vars

InitMaskSpec == InitTrain /\ InitQA /\ InitMask /\ InitFinIdle /\ InitSegIdle

NextMask == PredictMask

\* predict_mask on every input of MaskInputs.
SpecMask == InitMaskSpec /\ [][NextMask]_vars

InitFinSpec == InitTrain /\ InitQA /\ InitMaskIdle /\ InitFin /\ InitSegIdle

NextFin == FinishSentence

\* finish_sentence on every input of FinInputs.
SpecFinish == InitFinSpec /\ [][NextFin]_vars

InitSegSpec == InitTrain /\ InitQA /\ InitMaskIdle /\ InitFinIdle /\ InitSeg

NextSeg == GetSegmentIds

\* _get_segment_ids on every text of SegTexts.
SpecSegment == InitSegSpec /\ [][NextSeg]_vars

\* ====================================================== properties: train
TraceHas(e) == \E i \in 1..Len(res.trace) : res.trace[i] = e

Count(seq, r) == Cardinality({i \in 1..Len(seq) : seq[i] = r})

\* A cache directory that holds a train and an eval partition.
HasBoth(d) == d.kind = "dict" /\ d.train.kind # "none" /\ d.eval.kind # "none"

\* The last call was train(...) with a TrainArgs dataclass.
TrainCall == pc = "returned" /\ res.op = "train" /\ ~res.args.isDict

LoadPath == res.args.load_preprocessed_data_path

SavePath == res.args.save_preprocessed_data_path

C3_LoadWinsThenSave ==
    (/\ TrainCall
     /\ res.args.load_preprocessed_data /\ res.args.save_preprocessed_data
     /\ ~EndsWithJson(LoadPath) /\ ~EndsWithJson(SavePath)
     /\ HasBoth(before.disk[LoadPath])) =>
        /\ res.err = ""
        /\ res.trace = <<"load_from_disk", "warning", "save_to_disk", "_run_train">>
        /\ res.train = before.disk[LoadPath].train
        /\ res.eval = before.disk[LoadPath].eval
        /\ disk[SavePath] = DatasetDict(res.train, res.eval)

C3_Witness ==
    /\ TrainCall
    /\ res.args.load_preprocessed_data /\ res.args.save_preprocessed_data
    /\ LoadPath # SavePath
    /\ res.err = ""
    /\ TraceHas("warning") /\ TraceHas("save_to_disk")
    /\ before.disk[SavePath] = NoData

\* C4: a load request whose load path ends in ".json" is rejected with the
\* migration-guidance error before any load from disk, whatever the save
\* path; a directory load path is never rejected by that guard.
C4_LegacyLoadPathRejected ==
    (TrainCall /\ res.args.load_preprocessed_data) =>
        /\ EndsWithJson(LoadPath) =>
              /\ res.err = "ValueError: json, preprocess again"
              /\ ~TraceHas("load_from_disk")
        /\ ~EndsWithJson(LoadPath) =>
              res.err # "ValueError: json, preprocess again"

\* C5: without cache load, a single input file is split into a train and an
\* eval partition that are disjoint and together hold every row of the file
\* exactly once; with a separate eval file nothing is shuffled or split, and
\* train and eval are the rows of the two files in file order.
C5_SplitPartitions ==
    (TrainCall /\ ~res.args.load_preprocessed_data /\ TraceHas("tokenize")) =>
        IF res.evalf = NoPath
        THEN LET file == load_dataset(res.input)
                 both == res.rawTrain \o res.rawEval
             IN  /\ Len(both) = Len(file)
                 /\ \A i \in 1..Len(file) : Count(both, file[i]) = 1
                 /\ \A i \in 1..Len(res.rawTrain) :
                        Count(res.rawEval, res.rawTrain[i]) = 0
                 /\ res.err = "" => /\ res.train = _tok_function(res.rawTrain)
                                    /\ res.eval = _tok_function(res.rawEval)
        ELSE /\ res.rawTrain = load_dataset(res.input)
             /\ res.rawEval = load_dataset(res.evalf)
             /\ ~TraceHas("shuffle") /\ ~TraceHas("train_test_split")

C5_Witness ==
    /\ TrainCall /\ ~res.args.load_preprocessed_data
    /\ res.evalf = NoPath /\ res.input = MaxRows
    /\ TraceHas("train_test_split") /\ TraceHas("tokenize")
    /\ Len(res.rawTrain) >= 1 /\ Len(res.rawEval) >= 1

C7_IncompleteCacheFails ==
    (/\ TrainCall
     /\ res.args.load_preprocessed_data
     /\ ~HasBoth(before.disk[LoadPath])) =>
        /\ res.err # ""
        /\ TraceHas("load_from_disk") =>
               res.err \in {"FileNotFoundError", "KeyError"}
        /\ res.train = NoData /\ res.eval = NoData
        /\ ~TraceHas("_run_train")
        /\ weights = before.weights

C7_Witness ==
    /\ TrainCall
    /\ res.args.load_preprocessed_data
    /\ before.disk[LoadPath].kind = "dict"
    /\ before.disk[LoadPath].train.kind = "none"
    /\ res.err = "KeyError"
\* ================================================== properties: HappyBERT
QAOps == {"answer_question", "answers_to_question", "train_qa", "test_qa", "eval_qa"}

MaskDone == maskPc = "done" /\ maskRes.err = ""

Restricted == MaskDone /\ maskIn.options.given

\* The pairs of a sequence that carry score v, in order.
WithScore(pairs, v) == SelectSeq(pairs, LAMBDA p : p[2] = v)

AsPairs(out) == [i \in 1..Len(out) |-> <<out[i].word, out[i].score>>]

\* C8: the list predict_mask returns holds one {'word', 'score'} entry per
\* (candidate, score) pair, by score descending, and candidates with equal
\* scores stay in their input order.
C8_RankedStable ==
    MaskDone =>
        /\ Len(maskRes.out) = Len(maskRes.tupled)
        /\ \A i, j \in 1..Len(maskRes.out) :
               i < j => maskRes.out[i].score >= maskRes.out[j].score
        /\ \A v \in 0..(2 * MaxScore) :
               WithScore(AsPairs(maskRes.out), v) = WithScore(maskRes.tupled, v)

C8_Witness ==
    /\ Restricted
    /\ maskIn.options.list = <<"a", "b">>
    /\ maskRes.tupled[1][2] = maskRes.tupled[2][2]
    /\ maskRes.out[1].word = "a" /\ maskRes.out[2].word = "b"

\* The sum of the mask row's scores over the pieces of a candidate.
PieceSum(word) ==
    LET row == MaskSoftmax[IndexOf(maskIn.text, "[MASK]")]
    IN  IF word = "a" THEN row[1]
        ELSE IF word = "b" THEN row[2]
        ELSE row[1] + row[2]

\* C9: with options given, the i-th score belongs to the i-th candidate and
\* is the sum, over the candidate's sub-token ids, of the softmax score of
\* that id at the mask position; nothing else contributes.
C9_RestrictedScoreIsPieceSum ==
    Restricted =>
        /\ Len(maskRes.tupled) = Len(maskIn.options.list)
        /\ \A i \in 1..Len(maskRes.tupled) :
               maskRes.tupled[i] =
                   <<maskIn.options.list[i], PieceSum(maskIn.options.list[i])>>
        /\ \A i \in 1..Len(maskRes.out) :
               maskRes.out[i].score = PieceSum(maskRes.out[i].word)

C9_Witness ==
    /\ Restricted
    /\ maskIn.options.list = <<"ab", "b">>
    /\ maskIn.rowA # maskIn.rowB
    /\ maskRes.out[1] = [word |-> "ab", score |-> 3]

\* C10: with a text that holds the mask and an empty list of options,
\* predict_mask raises nothing and returns an empty list; the empty list is
\* restricted mode, not the unrestricted default.
C10_EmptyOptions ==
    (/\ maskPc = "done"
     /\ HasToken(maskIn.text, "[MASK]")
     /\ maskIn.options.given /\ maskIn.options.list = <<>>) =>
        /\ maskRes.err = ""
        /\ maskRes.mode = "restricted"
        /\ maskRes.out = <<>>

C10_Witness ==
    /\ maskPc = "done"
    /\ HasToken(maskIn.text, "[MASK]")
    /\ maskIn.options.given /\ maskIn.options.list = <<>>
    /\ maskRes.out = <<>> /\ maskRes.mode = "restricted"

Unrestricted == MaskDone /\ ~maskIn.options.given

MaskRow == MaskSoftmax[IndexOf(maskIn.text, "[MASK]")]

\* C11: with options None, predict_mask returns a list of exactly one entry:
\* a vocabulary token whose score at the mask position is the highest of the
\* row, together with that score.
C11_UnrestrictedTopOne ==
    Unrestricted =>
        /\ Len(maskRes.out) = 1
        /\ \E v \in Vocab :
               /\ \A u \in Vocab : MaskRow[u] <= MaskRow[v]
               /\ maskRes.out[1] = [word |-> convert_ids_to_tokens(v),
                                    score |-> MaskRow[v]]

C11_Witness ==
    /\ Unrestricted
    /\ MaskRow[1] < MaskRow[2]
    /\ maskRes.out = <<[word |-> convert_ids_to_tokens(2), score |-> MaskRow[2]]>>

\* ============================================= properties: train, continued
\* The tokens of the rows of input file f.
FileTokens(f) == {TokRow(load_dataset(f)[i]) : i \in 1..f}

RowSet(d) == {d.rows[i] : i \in 1..Len(d.rows)}

\* A saved pair that an earlier single-file call made of input file f: its
\* two partitions hold f rows together, all of them rows of f.
SplitOf(d, f) ==
    /\ d.kind = "dict" /\ d.train.kind = "dataset" /\ d.eval.kind = "dataset"
    /\ Len(d.train.rows) + Len(d.eval.rows) = f
    /\ RowSet(d.train) \cup RowSet(d.eval) = FileTokens(f)

\* The last call was train(...) on a single file, preprocessed afresh.
SingleFileCall ==
    /\ TrainCall /\ res.err = ""
    /\ ~res.args.load_preprocessed_data /\ res.evalf = NoPath

\* C12: two _preprocess_data calls on the same input file, with an empty
\* eval_filepath and the same eval_ratio, give the same train partition and
\* the same eval partition, rows and order. The earlier call is one that
\* saved its pair; the pair is compared with what the later call returns.
C12_SplitReproducible ==
    \A p \in CacheNames :
        (SingleFileCall /\ SplitOf(before.written[p], res.input)) =>
            /\ res.train = before.written[p].train
            /\ res.eval = before.written[p].eval

\* train(...) was asked to save the preprocessed data under a ".json" path.
JsonSaveCall ==
    TrainCall /\ res.args.save_preprocessed_data /\ EndsWithJson(SavePath)

LegacyPathErrors ==
    {"ValueError: json, provide a folder", "ValueError: json, preprocess again"}

\* What a failed call leaves behind: no write, no pair, no training.
NothingObservable ==
    /\ disk = before.disk
    /\ ~TraceHas("save_to_disk")
    /\ res.train = NoData /\ res.eval = NoData
    /\ ~TraceHas("_run_train")
    /\ weights = before.weights

EvalLoadCall ==
    /\ pc = "returned" /\ res.op = "eval" /\ ~res.args.isDict
    /\ res.args.load_preprocessed_data

\* C14: when an eval call with save_preprocessed_data has written its
\* tokenized data under P (and handed a table to _run_eval), a later eval
\* call that loads from P succeeds and hands _run_eval the same table, rows
\* and order: what the save branch writes is what the load branch reads, and
\* ["eval"] yields an eval partition on the preprocess and on the load path.
C14_EvalCacheConsistent ==
    (EvalLoadCall /\ before.evalSaved[LoadPath] # NoData) =>
        /\ res.err = ""
        /\ TraceHas("_run_eval")
        /\ res.eval = before.evalSaved[LoadPath]
        /\ res.eval.kind = "dataset"

C14_Witness ==
    /\ EvalLoadCall
    /\ before.evalSaved[LoadPath] = _tok_function(load_dataset(MaxRows))
    /\ res.eval = before.evalSaved[LoadPath]
    /\ TraceHas("load_from_disk") /\ TraceHas("_run_eval")

\* ============================================= properties: finish_sentence
\* The words of the first k predictions.
PredictedWords(k) == [i \in 1..k |-> convert_ids_to_tokens(finIn.tops[i])]

\* The third of three equal predictions in a row is the i-th prediction.
ThirdInRow(i) ==
    /\ i >= 3
    /\ finIn.tops[i] = finIn.tops[i - 1] /\ finIn.tops[i] = finIn.tops[i - 2]

\* The number of predictions finish_sentence is to make: up to
\* maxPredictionLength, or up to the first third-in-a-row prediction.
PredictionsDue ==
    LET stops == {i \in 1..finIn.maxPredictionLength : ThirdInRow(i)}
    IN  IF stops = {} THEN finIn.maxPredictionLength
        ELSE CHOOSE i \in stops : \A j \in stops : i <= j

\* C15: finish_sentence(text, maxPredictionLength) makes at most
\* maxPredictionLength predictions and returns the text extended by the
\* predicted words, at most maxPredictionLength of them; once a token has
\* been predicted three times in a row it returns the text built so far,
\* without the third occurrence.
C15_FinishSentenceExtends ==
    finPc = "done" =>
        /\ finRes.err = ""
        /\ finRes.made = PredictionsDue
        /\ finRes.made <= finIn.maxPredictionLength
        /\ finRes.text =
               finIn.text \o PredictedWords(
                   IF \E i \in 1..finIn.maxPredictionLength : ThirdInRow(i)
                   THEN PredictionsDue - 1 ELSE PredictionsDue)

\* ======================================= properties: HappyBERT, continued
QATrainerOps == {"train_qa", "test_qa", "eval_qa"}

\* C16: once init_qa has completed, every train_qa, test_qa and eval_qa call
\* reaches the QA trainer without an error; the QATrainer is made by the
\* first such call and the same instance serves every later one (at most one
\* is ever made), and the initialized flag stays set.
C16_QATrainerReachedAndReused ==
    /\ (qaRes.op \in QATrainerOps /\ qaRes.wasInit) =>
           /\ qaRes.err = NoError
           /\ qaRes.touched = "trainer"
           /\ qa_trainer = 1 /\ qaMade = 1
           /\ qa_init
    /\ qaMade <= 1

\* ============================================ properties: _get_segment_ids
SegDone == segPc = "done" /\ HasToken(segIn, "[SEP]")

\* C17: for a tokenized text that holds a separator, _get_segment_ids
\* returns a list as long as the text, 0 at every position up to and
\* including the first separator and 1 at every later one; the list is
\* non-decreasing and holds only 0 and 1.
C17_SegmentIds ==
    SegDone =>
        /\ segRes.err = ""
        /\ Len(segRes.ids) = Len(segIn)
        /\ \A i \in 1..Len(segIn) :
               segRes.ids[i] =
                   (IF \E j \in 1..i : segIn[j] = "[SEP]" /\ j < i THEN 1 ELSE 0)
        /\ \A i, j \in 1..Len(segRes.ids) :
               i <= j => segRes.ids[i] <= segRes.ids[j]
        /\ \A i \in 1..Len(segRes.ids) : segRes.ids[i] \in {0, 1}

C17_Witness ==
    /\ segPc = "done"
    /\ segIn = <<"w", "[SEP]", "[MASK]", "[SEP]">>
    /\ segRes.ids = <<0, 0, 1, 1>>
====
